---- MODULE Spec2Model ----
(***************************************************************************)
(* tauri-plugin-blec: the BLE central session handler (src/src/handler.rs) *)
(* and the event dispatcher task (src/src/lib.rs) as a state machine.      *)
(*                                                                         *)
(* Processes: API callers (tasks calling the Handler's &self methods),     *)
(* the dispatcher task (handle_events), the scan task spawned by           *)
(* discover(), and the adapter/hardware as the environment.                *)
(*                                                                         *)
(* Granularity: one action per stretch of code between two points where    *)
(* another task can observably interleave.  A tokio Mutex guard is held    *)
(* from its lock().await to the end of its scope, so the lock state is a   *)
(* function of the callers' program positions (StateLockHeld,              *)
(* DevicesLockHeld).  Steps taken while the state lock is held commute     *)
(* with every step of the other tasks except the lock-free                 *)
(* connected_tx.send(true) of handle_connect, and are merged where that    *)
(* send commutes with them as well.                                        *)
(***************************************************************************)
EXTENDS Naturals, Sequences, FiniteSets, TLC

(***************************** the world ***********************************)
None == "none"
Peripherals == {"p1", "p2"}
\* "a3" is the address of no peripheral
Addrs == {"a1", "a2", "a3"}
Uuids == {"u1", "u2"}
Callers == {"c1", "c2"}
CbIds == {"cbA"}

\* models.rs fmt_addr(dev.address()): the address bytes as colon separated hex
fmt_addr(p) == IF p = "p1" THEN "a1" ELSE "a2"

\* BleDevice::from_peripheral, the non-apple branch: the registry key is
\* peripheral.address().to_string(), the same rendering as fmt_addr
DeviceAddress(p) == IF p = "p1" THEN "a1" ELSE "a2"

\* device.services(), flattened to characteristic uuids
Characteristics(p) == IF p = "p1" THEN {"u1"} ELSE {"u2"}

(***************************** bounds **************************************)
\* the adapter's event stream holds at most MaxEvents undelivered events
MaxEvents == 1
\* the listener list holds at most MaxListeners entries
MaxListeners == 2
\* the calls of at most MaxNotifications notifications are followed into the pool
MaxNotifications == 2
\* sleep(Duration::from_millis(200)) and loops = timeout / 200
TickMs == 200
\* connect(): self.discover(None, 1000, vec![])
ImplicitTimeout == 1000
\* discover(tx, timeout, filter): the timeouts callers pass
Timeouts == {250}

VARIABLES
  \* ---- Handler
  devices,                    \* devices: HashMap<String, Peripheral>
  connected_val,              \* the value held by the watch channel connected_tx/connected_rx
  ever_sent,                  \* the watch channel's version differs from the initial one
  conn_evt,                   \* the peripheral of the DeviceConnected event whose handling published the
                              \* value true the channel holds; None while it holds false
  notify_listeners,           \* notify_listeners: Vec<Listener> (uuid and callback, in order)
  \* ---- HandlerState
  connected,                  \* state.connected: Option<Peripheral>
  characs,                    \* state.characs (what find/clear/push observe: the set of uuids)
  listen_handle,              \* state.listen_handle: the peripheral the handle's task is bound to
  on_disconnect,              \* state.on_disconnect
  connection_update_channel,  \* state.connection_update_channel: none / open / closed (receiver dropped)
  scan_update_channel,        \* state.scan_update_channel: none / open
  scan_task,                  \* state.scan_task: none / some
  \* ---- tasks
  pc,                         \* callers: position
  rx_stale,                   \* callers: changed() of the caller's clone of connected_rx is ready
  disp_pc, disp_id,           \* dispatcher: position and the peripheral id of the event in hand
  orphans,                    \* listen_notify tasks whose JoinHandle was overwritten in state.listen_handle
                              \* and dropped, which detaches the task: the peripherals they are bound to.
                              \* A task is followed while the link of its peripheral is up.
  listen_at,                  \* the listen_notify task of state.listen_handle: "next" at stream.next().await,
                              \* "in_cb" inside a callback that does not return, "dead" after a panic
  pool,                       \* the runtime's blocking pool: the callback calls handed to spawn_blocking
                              \* that have not started (the notification's number, its uuid and the
                              \* listener entry, by position)
  notified,                   \* the number of notifications whose calls were followed into the pool
  scan_pc, scan_left,         \* scan task: position and remaining loops
  scan_chan,                  \* scan task: its clone of state.scan_update_channel, taken when it was spawned
  scan_sink,                  \* scan task: the result sink tx it was spawned with: none / open
  scan_old,                   \* an aborted scan task that has not reached an .await that yields: the step it
                              \* is running, its clone of the channel and its result sink; NoScanOld when
                              \* there is none
  \* ---- adapter / hardware
  hw, req, events,            \* link state, pending connect requests, undelivered CentralEvents
  \* ---- observation (history) variables
  target,                     \* per connect() call: the peripheral connect_device resolved
  pub,                        \* per connect() call: the peripherals whose DeviceConnected was published since the
                              \* call began; per disconnect() call: the peripheral of the last publish since its
                              \* hardware request
  hwreq,                      \* per connect() call: the call issued device.connect()
  implicit,                   \* per connect() call: the call ran the implicit discover of line 156
  sink_view,                  \* the last connection state the front end of the connection update channel
                              \* was sent ("true" / "false"); None before the channel is set
  scan_ticks, scan_timeout,   \* per scan: the rounds of the loop done so far, the timeout it was started with
  scan_falses,                \* per scan: the number of false values sent on the scanning update channel
  scan_stopped,               \* per scan: the result of a stop_scan() called while its loop was running
                              \* (Err, Ok, or Sent: Ok with false sent on the scanning update channel)
  adapter_scanning,           \* the adapter is scanning: start_scan succeeded and no stop_scan since
  scan_view,                  \* the last value sent on the scanning update channel ("true" / "false");
                              \* None before any was sent
  obs                         \* what the step just taken made observable: the return of a call, or the
                              \* handling of a disconnect event; NoObs after any other step

hvars == <<devices, connected_val, ever_sent, conn_evt, notify_listeners>>
svars == <<connected, characs, listen_handle, on_disconnect, connection_update_channel,
           scan_update_channel, scan_task>>
cvars == <<pc, rx_stale>>
dvars == <<disp_pc, disp_id>>
tvars == <<scan_pc, scan_left, scan_chan, scan_sink, scan_old, scan_ticks, scan_timeout, scan_falses,
           scan_stopped, scan_view, adapter_scanning>>
avars == <<hw, req, events>>
gvars == <<target, pub, hwreq, implicit, sink_view>>
vars == <<hvars, svars, cvars, dvars, tvars, avars, gvars, orphans, listen_at, pool, notified, obs>>

(***************************** locks ***************************************)
\* positions at which a caller holds the guard of self.state (connect_device,
\* line 192 to its return; discover_services, line 385 to its return)
HoldsState == {"c_wait", "s_dev"}
\* positions at which a caller holds the guard of self.devices (connect_device,
\* line 199 to its return; discover_services, line 392 to the end of the else
\* block)
HoldsDevices == {"c_wait", "s_dev"}
StateLockHeld == \E c \in Callers : pc[c] \in HoldsState
DevicesLockHeld == \E c \in Callers : pc[c] \in HoldsDevices

EmptyMap == [a \in {} |-> None]

\* no aborted scan task is running
NoScanOld == [pc |-> "off", chan |-> None, sink |-> None]

\* op, r: the operation and its result; hwreq: the call issued device.connect();
\* confirmed: a connection state was published for the call (see pub); cb: the
\* on_disconnect callback was invoked; ticks, timeout: the rounds a finished scan
\* loop made and the timeout it was started with; uuid, calls: the characteristic
\* of a notification and the listener entries (by position) whose callback was
\* handed to spawn_blocking for it, in order; io: the peripheral's read or write
\* was called; orphan: the step was made by a task whose handle was overwritten
\* or aborted; arg: the on_disconnect argument of a connect() that returned Ok;
\* batch: the addresses of the devices a scan round pushed to the result sink;
\* n: the number of the notification a started callback call is for
NoObs == [op |-> None, r |-> None, hwreq |-> FALSE, confirmed |-> FALSE, cb |-> FALSE,
          ticks |-> 0, timeout |-> 0, uuid |-> None, calls |-> <<>>, io |-> FALSE,
          orphan |-> FALSE, arg |-> None, batch |-> <<>>, n |-> 0]

Init ==
  /\ devices = EmptyMap
  /\ connected_val = FALSE
  /\ ever_sent = FALSE
  /\ conn_evt = None
  /\ notify_listeners = <<>>
  /\ connected = None
  /\ characs = {}
  /\ listen_handle = None
  /\ on_disconnect = None
  /\ connection_update_channel = None
  /\ scan_update_channel = None
  /\ scan_task = None
  /\ pc = [c \in Callers |-> "idle"]
  /\ rx_stale = [c \in Callers |-> FALSE]
  /\ disp_pc = "next"
  /\ disp_id = None
  /\ orphans = {}
  /\ listen_at = "next"
  /\ pool = {}
  /\ notified = 0
  /\ scan_pc = "off"
  /\ scan_left = 0
  /\ scan_chan = None
  /\ scan_sink = None
  /\ scan_old = NoScanOld
  /\ scan_ticks = 0
  /\ scan_timeout = 0
  /\ scan_falses = 0
  /\ scan_stopped = None
  /\ scan_view = None
  /\ adapter_scanning = FALSE
  /\ hw = [p \in Peripherals |-> FALSE]
  /\ req = [p \in Peripherals |-> FALSE]
  /\ events = <<>>
  /\ target = [c \in Callers |-> None]
  /\ pub = [c \in Callers |-> {}]
  /\ hwreq = [c \in Callers |-> FALSE]
  /\ implicit = [c \in Callers |-> FALSE]
  /\ sink_view = None
  /\ obs = NoObs

(***************************** helpers *************************************)
\* watch::Sender::send, on the event of peripheral id: stores the value and bumps
\* the version, which makes changed() ready on every receiver
WatchSend(v, id) ==
  /\ connected_val' = v
  /\ ever_sent' = TRUE
  /\ conn_evt' = IF v THEN id ELSE None
  /\ rx_stale' = [c \in Callers |-> pc[c] = "c_wait"]

\* the publish for peripheral id as the calls in progress observe it
Published(id, isConnect) ==
  pub' = [c \in Callers |->
            IF pc[c] \in {"c_disc", "c_dev"} /\ isConnect THEN pub[c] \cup {id}
            ELSE IF pc[c] \in {"c_wait", "c_post"} /\ isConnect /\ id = target[c] THEN {id}
            ELSE IF pc[c] = "d_wait" THEN {id}
            ELSE pub[c]]

\* an API call of caller c returns r; issued: the call issued device.connect();
\* arg: the argument of the call that is observed with its return
ReturnWithArg(c, op, r, issued, arg) ==
  /\ pc' = [pc EXCEPT ![c] = "idle"]
  /\ target' = [target EXCEPT ![c] = None]
  /\ pub' = [pub EXCEPT ![c] = {}]
  /\ hwreq' = [hwreq EXCEPT ![c] = FALSE]
  /\ implicit' = [implicit EXCEPT ![c] = FALSE]
  /\ UNCHANGED sink_view
  /\ obs' = [NoObs EXCEPT !.op = op, !.r = r, !.hwreq = issued, !.confirmed = pub[c] # {},
                          !.arg = arg]

ReturnWith(c, op, r, issued) == ReturnWithArg(c, op, r, issued, None)

Return(c, op, r) == ReturnWith(c, op, r, hwreq[c])

Silent == obs' = NoObs

\* the dispatcher took an event from the stream and handle_event ignored it
Ignored == obs' = [NoObs EXCEPT !.op = "ignored"]

(***************************** adapter / hardware **************************)
\* the link of p comes up after a connect request: the adapter emits DeviceConnected(p)
LinkUp(p) ==
  /\ req[p] /\ ~hw[p]
  /\ Len(events) < MaxEvents
  /\ hw' = [hw EXCEPT ![p] = TRUE]
  /\ req' = [req EXCEPT ![p] = FALSE]
  /\ events' = Append(events, <<"DeviceConnected", p>>)
  /\ UNCHANGED <<hvars, svars, cvars, dvars, tvars, gvars>> /\ Silent
  /\ UNCHANGED <<orphans, listen_at, pool, notified>>

\* the link of p drops (out of range, remote side, or a disconnect request taking
\* effect): the adapter emits DeviceDisconnected(p)
LinkDown(p) ==
  /\ hw[p]
  /\ Len(events) < MaxEvents
  /\ hw' = [hw EXCEPT ![p] = FALSE]
  /\ events' = Append(events, <<"DeviceDisconnected", p>>)
  /\ orphans' = orphans \ {p}
  /\ UNCHANGED <<listen_at, pool, notified>>
  /\ UNCHANGED <<req, hvars, svars, cvars, dvars, tvars, gvars>> /\ Silent

\* a CentralEvent of another kind (DeviceDiscovered, DeviceUpdated, ...) about p
OtherEvent(p) ==
  /\ Len(events) < MaxEvents
  /\ events' = Append(events, <<"DeviceDiscovered", p>>)
  /\ UNCHANGED <<hw, req, hvars, svars, cvars, dvars, tvars, gvars>> /\ Silent
  /\ UNCHANGED <<orphans, listen_at, pool, notified>>

\* the receiving end of the connection update channel is dropped
DropConnectionReceiver ==
  /\ connection_update_channel = "open"
  /\ connection_update_channel' = "closed"
  /\ UNCHANGED <<connected, characs, listen_handle, on_disconnect, scan_update_channel, scan_task>>
  /\ UNCHANGED <<hvars, cvars, dvars, tvars, avars, gvars>> /\ Silent
  /\ UNCHANGED <<orphans, listen_at, pool, notified>>

(***************************** dispatcher **********************************)
\* a test that takes the event of any peripheral for the tracked one's
IsTrackedAny(id) == connected # None

\* handle_connect / handle_disconnect: is_some_and(|dev| dev.id() == peripheral_id)
IsTracked(id) == connected # None /\ connected = id

\* handle_event, DeviceConnected arm, up to the end of the if condition of
\* handle_connect: the state guard is a temporary of the condition and is dropped
\* before the send
HandleConnectCheck ==
  /\ disp_pc = "next" /\ events # <<>> /\ Head(events)[1] = "DeviceConnected"
  /\ ~StateLockHeld
  /\ events' = Tail(events)
  /\ IF IsTracked(Head(events)[2])
       THEN disp_pc' = "send" /\ disp_id' = Head(events)[2] /\ Silent
       ELSE UNCHANGED dvars /\ Ignored
  /\ UNCHANGED <<hw, req, hvars, svars, cvars, tvars, gvars>>
  /\ UNCHANGED <<orphans, listen_at, pool, notified>>

\* handle_connect: self.connected_tx.send(true), without the state lock
HandleConnectSend ==
  /\ disp_pc = "send"
  /\ WatchSend(TRUE, disp_id)
  /\ Published(disp_id, TRUE)
  /\ disp_pc' = "next" /\ disp_id' = None
  /\ UNCHANGED <<devices, notify_listeners, pc, target, hwreq, implicit, sink_view>>
  /\ UNCHANGED <<svars, tvars, avars>>
  /\ Silent
  /\ UNCHANGED <<orphans, listen_at, pool, notified>>

\* handle_event, DeviceDisconnected arm: handle_disconnect, under the state lock
\* from its first line to its return.  tx.send(false).await? returns the error of
\* a closed channel before characs.clear() and connected_tx.send(false), and
\* handle_events unwraps the result ("failed to handle event").
HandleDisconnect ==
  /\ disp_pc = "next" /\ events # <<>> /\ Head(events)[1] = "DeviceDisconnected"
  /\ ~StateLockHeld
  /\ events' = Tail(events)
  /\ UNCHANGED <<hw, req>>
  /\ IF ~IsTracked(Head(events)[2])
       THEN UNCHANGED <<hvars, svars, cvars, dvars, tvars, gvars, listen_at>> /\ Ignored
       ELSE /\ connected' = None
            /\ listen_handle' = None
            /\ listen_at' = "next"
            /\ notify_listeners' = <<>>
            /\ IF connection_update_channel = "closed"
                 THEN /\ disp_pc' = "dead"
                      /\ UNCHANGED <<characs, connected_val, ever_sent, conn_evt, rx_stale, pub, sink_view>>
                 ELSE /\ sink_view' = IF connection_update_channel = "open" THEN "false" ELSE sink_view
                      /\ characs' = {}
                      /\ WatchSend(FALSE, Head(events)[2])
                      /\ Published(Head(events)[2], FALSE)
                      /\ UNCHANGED disp_pc
            /\ obs' = [NoObs EXCEPT !.op = "handle_disconnect",
                                    !.r = IF connection_update_channel = "closed" THEN "Err" ELSE "Ok",
                                    !.cb = on_disconnect # None]
            /\ UNCHANGED <<devices, on_disconnect, connection_update_channel, scan_update_channel, scan_task>>
            /\ UNCHANGED <<pc, disp_id, tvars, target, hwreq, implicit>>
  /\ UNCHANGED <<orphans, pool, notified>>

\* handle_event, the `_event => {}` arm: an event of another kind is dropped
HandleOther ==
  /\ disp_pc = "next" /\ events # <<>>
  /\ Head(events)[1] \notin {"DeviceConnected", "DeviceDisconnected"}
  /\ events' = Tail(events)
  /\ UNCHANGED <<hw, req, hvars, svars, cvars, dvars, tvars, gvars>> /\ Ignored
  /\ UNCHANGED <<orphans, listen_at, pool, notified>>

(***************************** discover and the scan task ******************)
\* a bound of the observation variable scan_falses, not of the program
FalsesCap == 2

Min(a, b) == IF a < b THEN a ELSE b

\* JoinHandle::abort() on the scan task: a task parked at an .await is dropped
\* there; a task that is being polled (inflight) runs on to its next .await that
\* yields, so the step it is in (clearing the registry, the rest of a round, the
\* stop at the end of the loop) still completes.  While an earlier aborted task
\* is still running, it is the one that is followed.
AbortRemainder(inflight) ==
  IF scan_old.pc # "off" THEN scan_old
  ELSE IF inflight /\ scan_pc \in {"clear", "tick", "stop"}
    THEN [pc |-> scan_pc, chan |-> scan_chan, sink |-> scan_sink]
    ELSE NoScanOld

\* discover(), lines 327-373, under the state lock: takes and aborts the running
\* scan task and asks the adapter to stop, asks it to start, spawns the scan task
\* with loops = timeout / 200.  r: "Ok", "StopErr" (adapter.stop_scan() failed,
\* possible only with a scan task to take), "StartErr" (adapter.start_scan() failed)
DiscoverOutcomes == {"Ok", "StartErr"} \cup (IF scan_task # None THEN {"StopErr"} ELSE {})

\* a discover() that goes on after a rejected start_scan
StartedAnyway(r) == r # "StopErr"

\* discover(), lines 340-342: the `?` returns the error of adapter.start_scan()
\* before the send of line 344 and the spawn of line 349
Started(r) == r = "Ok"

DiscoverEffect(tx, timeout, r, inflight) ==
  /\ IF scan_task # None
       THEN scan_old' = AbortRemainder(inflight)
       ELSE UNCHANGED scan_old
  /\ scan_stopped' = None
  /\ scan_ticks' = 0
  /\ scan_falses' = 0
  /\ IF Started(r)
       THEN /\ scan_task' = "some" /\ scan_pc' = "clear" /\ scan_left' = timeout \div TickMs
            /\ scan_chan' = scan_update_channel
            /\ scan_sink' = tx
            /\ scan_timeout' = timeout
            /\ scan_view' = IF scan_update_channel # None THEN "true" ELSE scan_view
            /\ adapter_scanning' = TRUE
       ELSE /\ scan_task' = None /\ scan_pc' = "off" /\ scan_left' = 0
            /\ scan_chan' = None /\ scan_sink' = None
            /\ scan_timeout' = 0
            /\ UNCHANGED scan_view
            /\ adapter_scanning' = IF r = "StartErr" /\ scan_task # None THEN FALSE ELSE adapter_scanning

\* discover(tx, timeout, filter) called by c
DiscoverTo(c, tx, timeout, inflight) ==
  /\ pc[c] = "idle"
  /\ ~StateLockHeld
  /\ \E r \in DiscoverOutcomes :
       /\ DiscoverEffect(tx, timeout, r, inflight)
       /\ obs' = [NoObs EXCEPT !.op = "discover", !.r = r]
  /\ UNCHANGED <<hvars, connected, characs, listen_handle, on_disconnect,
                 connection_update_channel, scan_update_channel, cvars, dvars, avars, gvars>>
  /\ UNCHANGED <<orphans, listen_at, pool, notified>>

\* discover(None, timeout, filter) called by c
Discover(c, timeout, inflight) == DiscoverTo(c, None, timeout, inflight)

\* stop_scan(), line 425: self.adapter.stop_scan().await?, before the state lock
\* is asked for; the adapter's error returns at once
StopScan(c) ==
  /\ pc[c] = "idle"
  /\ \E r \in {"Ok", "StopErr"} :
       IF r = "StopErr"
         THEN /\ obs' = [NoObs EXCEPT !.op = "stop_scan", !.r = r]
              /\ scan_stopped' = IF scan_pc # "off" THEN "Err" ELSE scan_stopped
              /\ UNCHANGED <<pc, adapter_scanning>>
         ELSE /\ pc' = [pc EXCEPT ![c] = "t_lock"]
              /\ adapter_scanning' = FALSE
              /\ UNCHANGED scan_stopped /\ Silent
  /\ UNCHANGED <<scan_task, scan_pc, scan_left, scan_chan, scan_sink, scan_old,
                 scan_ticks, scan_timeout, scan_falses, scan_view>>
  /\ UNCHANGED <<hvars, connected, characs, listen_handle, on_disconnect,
                 connection_update_channel, scan_update_channel, rx_stale, dvars, avars, gvars>>
  /\ UNCHANGED <<orphans, listen_at, pool, notified>>

\* stop_scan(), lines 426-433, under the state lock: the task is taken and
\* aborted and false is sent on the scanning update channel
StopScanLocked(c, inflight) ==
  /\ pc[c] = "t_lock"
  /\ ~StateLockHeld
  /\ pc' = [pc EXCEPT ![c] = "idle"]
  /\ obs' = [NoObs EXCEPT !.op = "stop_scan", !.r = "Ok"]
  /\ scan_stopped' = IF scan_pc = "off" THEN scan_stopped
                       ELSE IF scan_update_channel # None THEN "Sent" ELSE "Ok"
  /\ IF scan_task # None
       THEN /\ scan_old' = AbortRemainder(inflight)
            /\ scan_pc' = "off" /\ scan_left' = 0 /\ scan_chan' = None /\ scan_sink' = None
            /\ scan_ticks' = 0 /\ scan_timeout' = 0
       ELSE UNCHANGED <<scan_old, scan_pc, scan_left, scan_chan, scan_sink, scan_ticks, scan_timeout>>
  /\ scan_task' = None
  /\ scan_falses' = IF scan_update_channel # None
                      THEN Min(scan_falses + 1, FalsesCap) ELSE scan_falses
  /\ scan_view' = IF scan_update_channel # None THEN "false" ELSE scan_view
  /\ UNCHANGED adapter_scanning
  /\ UNCHANGED <<hvars, connected, characs, listen_handle, on_disconnect,
                 connection_update_channel, scan_update_channel, rx_stale, dvars, avars, gvars>>
  /\ UNCHANGED <<orphans, listen_at, pool, notified>>

\* set_scanning_update_channel(tx), lines 115-117
SetScanningUpdateChannel(c) ==
  /\ pc[c] = "idle"
  /\ ~StateLockHeld
  /\ scan_update_channel' = "open"
  /\ UNCHANGED <<hvars, connected, characs, listen_handle, on_disconnect,
                 connection_update_channel, scan_task>>
  /\ UNCHANGED <<cvars, dvars, tvars, avars, gvars>> /\ Silent
  /\ UNCHANGED <<orphans, listen_at, pool, notified>>

\* scan task: self_devices.lock().await.clear()
ScanClear ==
  /\ scan_pc = "clear"
  /\ ~DevicesLockHeld
  /\ devices' = EmptyMap
  /\ scan_pc' = IF scan_left > 0 THEN "tick" ELSE "stop"
  /\ UNCHANGED <<connected_val, ever_sent, conn_evt, notify_listeners>>
  /\ UNCHANGED <<scan_left, scan_chan, scan_sink, scan_old, scan_ticks, scan_timeout, scan_falses, scan_stopped,
                 scan_view, adapter_scanning>>
  /\ UNCHANGED <<svars, cvars, dvars, avars, gvars>> /\ Silent
  /\ UNCHANGED <<orphans, listen_at, pool, notified>>

\* an insertion that keeps only the peripherals of the current round
add_devices_round(reg, discovered) ==
  [a \in {DeviceAddress(p) : p \in discovered} |->
     CHOOSE p \in discovered : DeviceAddress(p) = a]

\* add_devices: every converted peripheral is inserted under its address
add_devices(reg, discovered) ==
  [a \in DOMAIN reg \cup {DeviceAddress(p) : p \in discovered} |->
     IF \E p \in discovered : DeviceAddress(p) = a
       THEN CHOOSE p \in discovered : DeviceAddress(p) = a
       ELSE reg[a]]

\* the order of the address strings (String::cmp): "a1" < "a2" < "a3"
AddrRank(a) == IF a = "a1" THEN 1 ELSE IF a = "a2" THEN 2 ELSE 3

\* models.rs, Ord for BleDevice: self.address.cmp(&other.address)
cmp(d, e) == AddrRank(d) < AddrRank(e)

\* a sort that leaves the devices in the order they were pushed
sort_none(batch) == batch

\* add_devices, line 452: devices.sort()
sort(batch) == SortSeq(batch, cmp)

\* adapter.peripherals(): the peripherals of S as a Vec, in any order
Orders(S) ==
  {order \in [1..Cardinality(S) -> S] : \A i, j \in 1..Cardinality(S) : i # j => order[i] # order[j]}

\* add_devices, lines 440-453: the BleDevice of every converted peripheral, pushed
\* in the order of `discovered`, then sorted
Batch(order) == sort([i \in 1..Len(order) |-> DeviceAddress(order[i])])

\* scan task, lines 360-366: a batch that is not empty is sent to the result sink
\* when the task has one
Pushed(batch, sink) == batch # <<>> /\ sink # None

\* scan task, one round of the loop: sleep, adapter.peripherals(), add_devices, and
\* the send of the batch, whose error (the receiver of the sink was dropped) panics
\* the task.  `discovered` are the peripherals the adapter returned that
\* from_peripheral converted.
ScanTick(discovered) ==
  /\ scan_pc = "tick"
  /\ discovered # {} => ~DevicesLockHeld
  /\ devices' = add_devices(devices, discovered)
  /\ \E order \in Orders(discovered), sent \in BOOLEAN :
       /\ ~Pushed(Batch(order), scan_sink) => sent
       /\ IF sent
            THEN /\ scan_left' = scan_left - 1
                 /\ scan_ticks' = scan_ticks + 1
                 /\ scan_pc' = IF scan_left > 1 THEN "tick" ELSE "stop"
                 /\ UNCHANGED <<scan_chan, scan_sink, scan_timeout>>
                 /\ obs' = IF Pushed(Batch(order), scan_sink)
                             THEN [NoObs EXCEPT !.op = "batch", !.batch = Batch(order),
                                                !.ticks = scan_ticks + 1]
                             ELSE NoObs
            ELSE /\ scan_pc' = "off" /\ scan_left' = 0 /\ scan_chan' = None /\ scan_sink' = None
                 /\ scan_ticks' = 0 /\ scan_timeout' = 0
                 /\ Silent
  /\ UNCHANGED <<connected_val, ever_sent, conn_evt, notify_listeners>>
  /\ UNCHANGED <<scan_old, scan_falses, scan_stopped, scan_view, adapter_scanning>>
  /\ UNCHANGED <<svars, cvars, dvars, avars, gvars>>
  /\ UNCHANGED <<orphans, listen_at, pool, notified>>

\* scan task: adapter.peripherals() fails and the expect() panics the task
ScanTickFail ==
  /\ scan_pc = "tick"
  /\ scan_pc' = "off" /\ scan_left' = 0 /\ scan_chan' = None /\ scan_sink' = None
  /\ scan_ticks' = 0 /\ scan_timeout' = 0
  /\ UNCHANGED <<scan_old, scan_falses, scan_stopped, scan_view, adapter_scanning>>
  /\ UNCHANGED <<hvars, svars, cvars, dvars, avars, gvars>> /\ Silent
  /\ UNCHANGED <<orphans, listen_at, pool, notified>>

\* scan task, lines 367-371: adapter.stop_scan() after the loop (its error panics
\* the task), false on the task's clone of the scanning update channel, and the
\* task ends
ScanStop ==
  /\ scan_pc = "stop"
  /\ scan_pc' = "off" /\ scan_left' = 0 /\ scan_chan' = None /\ scan_sink' = None
  /\ scan_ticks' = 0 /\ scan_timeout' = 0
  /\ \E r \in {"Ok", "StopErr"} :
       IF r = "Ok"
         THEN /\ scan_falses' = IF scan_chan # None THEN Min(scan_falses + 1, FalsesCap) ELSE scan_falses
              /\ scan_view' = IF scan_chan # None THEN "false" ELSE scan_view
              /\ adapter_scanning' = FALSE
              /\ obs' = [NoObs EXCEPT !.op = "scan_done", !.ticks = scan_ticks, !.timeout = scan_timeout]
         ELSE UNCHANGED <<scan_falses, scan_view, adapter_scanning>> /\ Silent
  /\ UNCHANGED <<scan_old, scan_stopped>>
  /\ UNCHANGED <<hvars, svars, cvars, dvars, avars, gvars>>
  /\ UNCHANGED <<orphans, listen_at, pool, notified>>

\* an aborted scan task that is still being polled completes the clearing of the
\* registry; waiting for the registry's lock it is dropped instead
ScanOldClear ==
  /\ scan_old.pc = "clear"
  /\ devices' = IF DevicesLockHeld THEN devices ELSE EmptyMap
  /\ scan_old' = NoScanOld
  /\ UNCHANGED <<connected_val, ever_sent, conn_evt, notify_listeners>>
  /\ UNCHANGED <<scan_pc, scan_left, scan_chan, scan_sink, scan_ticks, scan_timeout, scan_falses, scan_stopped,
                 scan_view, adapter_scanning>>
  /\ UNCHANGED <<svars, cvars, dvars, avars, gvars>> /\ Silent
  /\ UNCHANGED <<orphans, listen_at, pool, notified>>

\* an aborted scan task that is still being polled completes its round
ScanOldTick(discovered) ==
  /\ scan_old.pc = "tick"
  /\ discovered # {} => ~DevicesLockHeld
  /\ devices' = add_devices(devices, discovered)
  /\ scan_old' = NoScanOld
  /\ \E order \in Orders(discovered), sent \in BOOLEAN :
       obs' = IF sent /\ Pushed(Batch(order), scan_old.sink)
                THEN [NoObs EXCEPT !.op = "batch", !.batch = Batch(order), !.orphan = TRUE]
                ELSE NoObs
  /\ UNCHANGED <<connected_val, ever_sent, conn_evt, notify_listeners>>
  /\ UNCHANGED <<scan_pc, scan_left, scan_chan, scan_sink, scan_ticks, scan_timeout, scan_falses, scan_stopped,
                 scan_view, adapter_scanning>>
  /\ UNCHANGED <<svars, cvars, dvars, avars, gvars>>
  /\ UNCHANGED <<orphans, listen_at, pool, notified>>

\* an aborted scan task that is still being polled completes lines 367-371
ScanOldStop ==
  /\ scan_old.pc = "stop"
  /\ scan_falses' = IF scan_old.chan # None THEN Min(scan_falses + 1, FalsesCap) ELSE scan_falses
  /\ scan_view' = IF scan_old.chan # None THEN "false" ELSE scan_view
  /\ adapter_scanning' = FALSE
  /\ scan_old' = NoScanOld
  /\ UNCHANGED <<scan_pc, scan_left, scan_chan, scan_sink, scan_ticks, scan_timeout, scan_stopped>>
  /\ UNCHANGED <<hvars, svars, cvars, dvars, avars, gvars>> /\ Silent
  /\ UNCHANGED <<orphans, listen_at, pool, notified>>

(***************************** connect *************************************)
\* connect(), line 155: self.devices.lock().await.len() == 0
ConnectBegin(c) ==
  /\ pc[c] = "idle"
  /\ ~DevicesLockHeld
  /\ pc' = [pc EXCEPT ![c] = IF DOMAIN devices = {} THEN "c_disc" ELSE "c_dev"]
  /\ UNCHANGED <<hvars, svars, rx_stale, dvars, tvars, avars, gvars>> /\ Silent
  /\ UNCHANGED <<orphans, listen_at, pool, notified>>

\* connect(), line 156: self.discover(None, 1000, vec![]).await?
ConnectDiscover(c, inflight) ==
  /\ pc[c] = "c_disc"
  /\ ~StateLockHeld
  /\ \E r \in DiscoverOutcomes :
       /\ DiscoverEffect(None, ImplicitTimeout, r, inflight)
       /\ IF r = "Ok"
            THEN /\ pc' = [pc EXCEPT ![c] = "c_dev"]
                 /\ implicit' = [implicit EXCEPT ![c] = TRUE]
                 /\ UNCHANGED <<target, pub, hwreq, sink_view>> /\ Silent
            ELSE Return(c, "connect", "Transport")
  /\ UNCHANGED <<hvars, connected, characs, listen_handle, on_disconnect,
                 connection_update_channel, scan_update_channel, rx_stale, dvars, avars>>
  /\ UNCHANGED <<orphans, listen_at, pool, notified>>

\* a connect_device that skips the check of lines 193-197
AlreadyConnectedNever(a) == FALSE

\* connect_device, lines 193-197
AlreadyConnectedTo(a) == connected # None /\ a = fmt_addr(connected)

\* a lookup that finds no address
RegisteredNever(a) == FALSE

\* connect_device, lines 199-202: devices.get(address)
Registered(a) == a \in DOMAIN devices

\* the results of the adapter calls of connect_device: device.is_connected()
\* fails, device.connect() (called when the device is not connected and the
\* assertion passes) fails, or both succeed
ConnectOutcomes(device) ==
  {"Ok", "IsConnectedErr"} \cup (IF ~hw[device] /\ ~connected_val THEN {"ConnectErr"} ELSE {})

\* the positions at which a caller has called connect_device and waits for the
\* state lock of line 192: from connect() (line 159) and from discover_services
\* (line 401)
ConnectDeviceCalled == {"c_dev", "s_dev"}

\* connect_device, lines 192-212: from taking the state lock to the end of the
\* hardware connect request.  address is the argument of connect(), which this is
\* the first line to read.
ConnectDevice(c, address) ==
  /\ pc[c] \in ConnectDeviceCalled
  /\ ~StateLockHeld /\ ~DevicesLockHeld
  /\ UNCHANGED <<devices, connected_val, ever_sent, conn_evt, notify_listeners>>
  /\ UNCHANGED <<characs, listen_handle, on_disconnect, connection_update_channel,
                 scan_update_channel, scan_task>>
  /\ UNCHANGED <<dvars, tvars, hw, events>>
  /\ IF AlreadyConnectedTo(address)
       THEN /\ Return(c, "connect", "AlreadyConnected")
            /\ UNCHANGED <<connected, rx_stale, req>>
     ELSE IF ~Registered(address)
       THEN /\ Return(c, "connect", "UnknownPeripheral")
            /\ UNCHANGED <<connected, rx_stale, req>>
     ELSE LET device == devices[address] IN
       /\ connected' = device
       /\ \E r \in ConnectOutcomes(device) :
            IF r = "IsConnectedErr"
              THEN /\ Return(c, "connect", "Transport")
                   /\ UNCHANGED <<rx_stale, req>>
            ELSE IF hw[device]
              \* already connected: the clone of self.connected_rx keeps the
              \* version self.connected_rx was created with
              THEN /\ pc' = [pc EXCEPT ![c] = "c_wait"]
                   /\ rx_stale' = [rx_stale EXCEPT ![c] = ever_sent]
                   /\ target' = [target EXCEPT ![c] = device]
                   /\ pub' = [pub EXCEPT ![c] = pub[c] \cap {device}]
                   /\ UNCHANGED <<req, hwreq, implicit, sink_view>> /\ Silent
            ELSE IF connected_val
              \* assert!(!(*connected_rx.borrow_and_update()))
              THEN /\ Return(c, "connect", "Panic")
                   /\ UNCHANGED <<rx_stale, req>>
            ELSE /\ req' = [req EXCEPT ![device] = TRUE]
                 /\ UNCHANGED rx_stale
                 /\ IF r = "Ok"
                      THEN /\ pc' = [pc EXCEPT ![c] = "c_wait"]
                           /\ target' = [target EXCEPT ![c] = device]
                           /\ pub' = [pub EXCEPT ![c] = pub[c] \cap {device}]
                           /\ hwreq' = [hwreq EXCEPT ![c] = TRUE]
                           /\ UNCHANGED <<implicit, sink_view>> /\ Silent
                      ELSE ReturnWith(c, "connect", "Transport", TRUE)
  /\ UNCHANGED <<orphans, listen_at, pool, notified>>

\* connect_device, lines 214-228: connected_rx.changed().await, still holding the
\* guards of self.state and self.devices
ConnectWait(c) ==
  /\ pc[c] = "c_wait"
  /\ rx_stale[c]
  /\ rx_stale' = [rx_stale EXCEPT ![c] = FALSE]
  /\ IF ~connected_val
       THEN Return(c, "connect", "ConnectionFailed")
     ELSE IF connection_update_channel = "closed"
       \* tx.send(true).await.expect("failed to send connection update")
       THEN Return(c, "connect", "Panic")
     ELSE /\ pc' = [pc EXCEPT ![c] = "c_post"]
          /\ sink_view' = IF connection_update_channel = "open" THEN "true" ELSE sink_view
          /\ UNCHANGED <<target, pub, hwreq, implicit>> /\ Silent
  /\ UNCHANGED <<hvars, svars, dvars, tvars, avars>>
  /\ UNCHANGED <<orphans, listen_at, pool, notified>>

\* connect(), lines 162-164: if let Some(cb) = on_disconnect { state.on_disconnect
\* = Some(..) }
Registration(cb) == IF cb # None THEN cb ELSE on_disconnect

\* connect(), lines 168-171: state.listen_handle = Some(spawn(..)) drops the
\* JoinHandle it replaces without aborting its task
Detached ==
  IF listen_handle # None /\ hw[listen_handle] THEN orphans \cup {listen_handle} ELSE orphans

\* connect(), lines 160-172: registers the callback cb (its second argument, read
\* here), connect_services, spawns listen_notify.  svcOk: device.discover_services()
\* succeeded, or the services were known already.
ConnectPost(c, cb) ==
  /\ pc[c] = "c_post"
  /\ ~StateLockHeld
  /\ on_disconnect' = Registration(cb)
  /\ IF connected = None
       THEN /\ Return(c, "connect", "NoDeviceConnected")
            /\ UNCHANGED <<characs, listen_handle, orphans, listen_at>>
       ELSE \E svcOk \in BOOLEAN :
            IF ~svcOk
              THEN /\ Return(c, "connect", "Transport")
                   /\ UNCHANGED <<characs, listen_handle, orphans, listen_at>>
              ELSE /\ characs' = characs \cup Characteristics(connected)
                   /\ listen_handle' = connected
                   /\ orphans' = Detached
                   /\ listen_at' = "next"
                   /\ ReturnWithArg(c, "connect", "Ok", hwreq[c], cb)
  /\ UNCHANGED <<hvars, connected, connection_update_channel, scan_update_channel, scan_task>>
  /\ UNCHANGED <<rx_stale, dvars, tvars, avars, pool, notified>>

(***************************** disconnect **********************************)
\* the results of the adapter calls of disconnect(): dev.is_connected() fails
\* (possible with a tracked device), dev.disconnect() (called when the device is
\* connected and the assertion passes) fails, or both succeed
DisconnectOutcomes ==
  {"Ok"} \cup (IF connected # None /\ hw[connected] THEN {"IsConnectedErr"} ELSE {})
         \cup (IF connected # None /\ hw[connected] /\ ~connected_val THEN {"DisconnectErr"} ELSE {})

\* a disconnect() that takes every tracked peripheral for connected
NothingTracked(r) == connected = None

\* disconnect(), lines 240-254: no peripheral is tracked, or dev.is_connected()
\* is not Ok(true)
NothingToDisconnect(r) == connected = None \/ r = "IsConnectedErr" \/ ~hw[connected]

\* a disconnect() that clears the session itself
DisconnectSessionCleared ==
  /\ connected' = None /\ characs' = {} /\ listen_handle' = None /\ notify_listeners' = <<>>
  /\ UNCHANGED on_disconnect

\* disconnect(), lines 237-268: state.connected is only read (line 240) and no
\* other field of the session is touched
DisconnectSession ==
  UNCHANGED <<connected, characs, listen_handle, on_disconnect, notify_listeners>>

\* disconnect(), lines 239-254, under the state lock
Disconnect(c) ==
  /\ pc[c] = "idle"
  /\ ~StateLockHeld
  /\ \E r \in DisconnectOutcomes :
       IF NothingToDisconnect(r)
         THEN Return(c, "disconnect", "NoDeviceConnected")
       ELSE IF connected_val
         \* assert!(!(*connected_rx.borrow_and_update()))
         THEN Return(c, "disconnect", "Panic")
       ELSE IF r = "DisconnectErr"
         THEN Return(c, "disconnect", "Transport")
       ELSE /\ pc' = [pc EXCEPT ![c] = "d_wait"]
            /\ UNCHANGED gvars /\ Silent
  /\ DisconnectSession
  /\ UNCHANGED <<devices, connected_val, ever_sent, conn_evt, connection_update_channel,
                 scan_update_channel, scan_task, rx_stale, dvars, tvars, avars>>
  /\ UNCHANGED <<orphans, listen_at, pool, notified>>

\* disconnect(), lines 258-262: self.connected_rx.clone().changed().await.  The
\* clone carries the version self.connected_rx was created with, so changed()
\* is ready as soon as the channel was ever sent to.
DisconnectWaitReady == ever_sent

\* disconnect(), lines 258-267
DisconnectWait(c) ==
  /\ pc[c] = "d_wait"
  /\ DisconnectWaitReady
  /\ IF connected_val
       THEN Return(c, "disconnect", "DisconnectFailed")
       ELSE Return(c, "disconnect", "Ok")
  /\ DisconnectSession
  /\ UNCHANGED <<devices, connected_val, ever_sent, conn_evt, connection_update_channel,
                 scan_update_channel, scan_task, rx_stale, dvars, tvars, avars>>
  /\ UNCHANGED <<orphans, listen_at, pool, notified>>

(***************************** discover_services ***************************)
\* the results of the adapter calls of discover_services(): device.is_connected()
\* fails (asked of a registered device that is not the tracked one),
\* device.discover_services() fails, or all succeed
DiscoverServicesOutcomes(address) ==
  {"Ok", "DiscoverErr"}
    \cup (IF ~AlreadyConnectedTo(address) /\ Registered(address) THEN {"IsConnectedErr"} ELSE {})

\* discover_services(address), lines 384-401, under the state lock taken at line
\* 385 and held to the return: the tracked peripheral of that address, or the
\* registered one under the devices lock; for a device that is connected the
\* services are discovered and returned (lines 405-408), for one that is not
\* connect_device is called with both guards still held
DiscoverServices(c, address) ==
  /\ pc[c] = "idle"
  /\ ~StateLockHeld
  /\ \E r \in DiscoverServicesOutcomes(address) :
       IF AlreadyConnectedTo(address)
         THEN Return(c, "discover_services", IF r = "DiscoverErr" THEN "Transport" ELSE "Ok")
       ELSE IF ~Registered(address)
         THEN Return(c, "discover_services", "UnknownPeripheral")
       ELSE IF r = "IsConnectedErr"
         THEN Return(c, "discover_services", "Transport")
       ELSE IF hw[devices[address]]
         THEN Return(c, "discover_services", IF r = "DiscoverErr" THEN "Transport" ELSE "Ok")
       ELSE /\ pc' = [pc EXCEPT ![c] = "s_dev"]
            /\ UNCHANGED gvars /\ Silent
  /\ UNCHANGED <<hvars, svars, rx_stale, dvars, tvars, avars>>
  /\ UNCHANGED <<orphans, listen_at, pool, notified>>

(***************************** other requests ******************************)
\* a connection state as the front end receives it
BoolStr(b) == IF b THEN "true" ELSE "false"

\* commands.rs connection_state: update.send(handler.is_connected()) right after
\* the sender was registered
ConnectionStateInitial == BoolStr(connected_val)

\* set_connection_update_channel(tx), called as the connection_state command does
SetConnectionUpdateChannel(c) ==
  /\ pc[c] = "idle"
  /\ ~StateLockHeld
  /\ connection_update_channel' = "open"
  /\ sink_view' = ConnectionStateInitial
  /\ UNCHANGED <<hvars, connected, characs, listen_handle, on_disconnect, scan_update_channel, scan_task>>
  /\ UNCHANGED <<cvars, dvars, tvars, avars, target, pub, hwreq, implicit>> /\ Silent
  /\ UNCHANGED <<orphans, listen_at, pool, notified>>

\* what a listener's callback does when it is called: it returns, it never
\* returns, or it panics
Callbacks == {"returns", "blocks", "panics"}

\* send_data / recv_data, under the state lock: the tracked peripheral or
\* NoDeviceConnected, the cached characteristic (get_charac) or
\* CharacNotAvailable, then the peripheral's primitive, whose error is returned
DataOutcomes(u) ==
  IF connected = None THEN {"NoDeviceConnected"}
  ELSE IF u \notin characs THEN {"CharacNotAvailable"}
  ELSE {"Ok", "Transport"}

\* a subscribe that appends the listener whatever the result
SubscribedAlways(listeners, r, entry) == Append(listeners, entry)

\* subscribe, lines 523-530: the `?` of lines 523-525 return before the push of
\* line 526
Subscribed(listeners, r, entry) == IF r = "Ok" THEN Append(listeners, entry) ELSE listeners

\* subscribe(c, callback), lines 517-531, under the state lock: the tracked
\* peripheral or NoDeviceConnected, the cached characteristic or
\* CharacNotAvailable, dev.subscribe(charac), whose error is returned, then the
\* push of the listener; k is what the callback does when it is called
Subscribe(c, u, k) ==
  /\ pc[c] = "idle"
  /\ ~StateLockHeld
  /\ Len(notify_listeners) < MaxListeners
  /\ \E r \in DataOutcomes(u) :
       /\ obs' = [NoObs EXCEPT !.op = "subscribe", !.r = r, !.uuid = u,
                               !.io = (r \in {"Ok", "Transport"})]
       /\ notify_listeners' = Subscribed(notify_listeners, r, [uuid |-> u, callback |-> k])
  /\ UNCHANGED <<devices, connected_val, ever_sent, conn_evt, svars, cvars, dvars, tvars, avars, gvars>>
  /\ UNCHANGED <<orphans, listen_at, pool, notified>>

\* send_data(c, data), lines 471-477
SendData(c, u) ==
  /\ pc[c] = "idle"
  /\ ~StateLockHeld
  /\ \E r \in DataOutcomes(u) :
       obs' = [NoObs EXCEPT !.op = "send_data", !.r = r, !.uuid = u,
                            !.io = (r \in {"Ok", "Transport"})]
  /\ UNCHANGED <<hvars, svars, cvars, dvars, tvars, avars, gvars>>
  /\ UNCHANGED <<orphans, listen_at, pool, notified>>

\* recv_data(c), lines 494-500
RecvData(c, u) ==
  /\ pc[c] = "idle"
  /\ ~StateLockHeld
  /\ \E r \in DataOutcomes(u) :
       obs' = [NoObs EXCEPT !.op = "recv_data", !.r = r, !.uuid = u,
                            !.io = (r \in {"Ok", "Transport"})]
  /\ UNCHANGED <<hvars, svars, cvars, dvars, tvars, avars, gvars>>
  /\ UNCHANGED <<orphans, listen_at, pool, notified>>

(***************************** notifications *******************************)
RECURSIVE InvokedFirst(_, _, _)
\* a loop that leaves at the first matching listener
InvokedFirst(listeners, u, i) ==
  IF i > Len(listeners) THEN <<>>
  ELSE IF listeners[i].uuid = u THEN <<i>>
  ELSE InvokedFirst(listeners, u, i + 1)

RECURSIVE Invoked(_, _, _)
\* listen_notify, lines 611-618: the loop over the listeners from entry i on; every
\* entry whose uuid equals the notification's has its callback handed to
\* spawn_blocking
Invoked(listeners, u, i) ==
  IF i > Len(listeners) THEN <<>>
  ELSE (IF listeners[i].uuid = u THEN <<i>> ELSE <<>>) \o Invoked(listeners, u, i + 1)

\* a loop that calls the callbacks itself: the task is where the first matching
\* callback that does not return normally leaves it
AfterDispatchInline(listeners, u) ==
  LET stuck == {i \in 1..Len(listeners) :
                  listeners[i].uuid = u /\ listeners[i].callback # "returns"}
  IN IF stuck = {} THEN "next"
     ELSE LET first == CHOOSE i \in stuck : \A j \in stuck : i <= j
          IN IF listeners[first].callback = "blocks" THEN "in_cb" ELSE "dead"

\* listen_notify, line 616: async_runtime::spawn_blocking(move || cb(&data)) hands
\* the call to the runtime's blocking pool and returns at once, whatever the
\* callback does; the task goes on with the loop and back to stream.next().await
AfterDispatch(listeners, u) == "next"

\* the calls of notification n of characteristic u, one per matching listener
Calls(listeners, u, n) ==
  {[n |-> n, uuid |-> u, l |-> Invoked(listeners, u, 1)[k]] :
     k \in 1..Len(Invoked(listeners, u, 1))}

\* listen_notify, one round of `while let Some(data) = stream.next().await`: the
\* task spawned by connect() for the peripheral listen_handle reads a notification
\* of characteristic u, which the connected peripheral sent.  prompt: the pool's
\* threads start the calls before anything else happens; otherwise the calls are
\* followed in the pool.
ListenNotify(u, prompt) ==
  /\ listen_handle # None /\ hw[listen_handle]
  /\ listen_at = "next"
  /\ listen_at' = AfterDispatch(notify_listeners, u)
  /\ IF prompt
       THEN UNCHANGED <<pool, notified>>
       ELSE /\ notified < MaxNotifications
            /\ notified' = notified + 1
            /\ pool' = pool \cup Calls(notify_listeners, u, notified + 1)
  /\ obs' = [NoObs EXCEPT !.op = "notify", !.uuid = u, !.calls = Invoked(notify_listeners, u, 1)]
  /\ UNCHANGED <<hvars, svars, cvars, dvars, tvars, avars, gvars>>
  /\ UNCHANGED orphans

\* spawn_blocking, line 616: every call is a task of its own on the blocking
\* pool, whose threads take the tasks and start them independently of each other
Startable(e) == e \in pool

\* a thread of the blocking pool starts the call e: cb(&data)
PoolRun(e) ==
  /\ Startable(e)
  /\ pool' = pool \ {e}
  /\ obs' = [NoObs EXCEPT !.op = "callback", !.uuid = e.uuid, !.calls = <<e.l>>, !.n = e.n]
  /\ UNCHANGED <<hvars, svars, cvars, dvars, tvars, avars, gvars, orphans, listen_at, notified>>

\* listen_notify, one round of the loop of a task whose handle was overwritten:
\* it reads the notification of characteristic u from its own stream of the
\* peripheral p it is bound to; the pool's threads start its calls at once
OrphanNotify(p, u) ==
  /\ p \in orphans /\ hw[p]
  /\ obs' = [NoObs EXCEPT !.op = "notify", !.uuid = u, !.calls = Invoked(notify_listeners, u, 1),
                          !.orphan = TRUE]
  /\ UNCHANGED <<hvars, svars, cvars, dvars, tvars, avars, gvars, orphans, listen_at, pool, notified>>

\* a retain that keeps the entries from the first removed one on
RetainedUpToFirst(listeners, u) ==
  LET hit == {i \in 1..Len(listeners) : listeners[i].uuid = u}
  IN IF hit = {} THEN listeners
     ELSE LET first == CHOOSE i \in hit : \A j \in hit : i <= j
          IN SubSeq(listeners, 1, first - 1) \o SubSeq(listeners, first + 1, Len(listeners))

\* unsubscribe, line 544: listeners.retain(|l| l.uuid != charac.uuid)
Retained(listeners, u) == SelectSeq(listeners, LAMBDA l : l.uuid # u)

\* unsubscribe(c), lines 538-546, under the state lock: the tracked peripheral or
\* NoDeviceConnected, the cached characteristic or CharacNotAvailable,
\* dev.unsubscribe(charac), whose error is returned, then the retain
Unsubscribe(c, u) ==
  /\ pc[c] = "idle"
  /\ ~StateLockHeld
  /\ \E r \in DataOutcomes(u) :
       /\ obs' = [NoObs EXCEPT !.op = "unsubscribe", !.r = r, !.uuid = u,
                               !.calls = Invoked(notify_listeners, u, 1)]
       /\ notify_listeners' = IF r = "Ok" THEN Retained(notify_listeners, u) ELSE notify_listeners
  /\ UNCHANGED <<devices, connected_val, ever_sent, conn_evt, svars, cvars, dvars, tvars, avars, gvars>>
  /\ UNCHANGED <<orphans, listen_at, pool, notified>>

(***************************** specifications ******************************)
Adapter == \E p \in Peripherals : LinkUp(p) \/ LinkDown(p)

\* lib.rs handle_events: one event at a time through handle_event
Dispatcher == HandleConnectCheck \/ HandleConnectSend \/ HandleDisconnect

ScanTask ==
  \/ ScanClear
  \/ \E S \in SUBSET Peripherals : ScanTick(S)
  \/ ScanTickFail
  \/ ScanStop

\* the remainders of aborted scan tasks
ScanOld ==
  \/ ScanOldClear
  \/ \E S \in SUBSET Peripherals : ScanOldTick(S)
  \/ ScanOldStop

\* the client of the freshly constructed handler
Client == "c1"

\* a freshly constructed handler, the adapter, the dispatcher, the scan task and
\* one client issuing discover, connect and disconnect, one call at a time; a scan
\* task is parked at an .await whenever it is aborted
Next ==
  \/ Adapter
  \/ Dispatcher
  \/ ScanTask
  \/ \E t \in Timeouts : Discover(Client, t, FALSE)
  \/ ConnectBegin(Client)
  \/ ConnectDiscover(Client, FALSE)
  \/ \E a \in Addrs : ConnectDevice(Client, a)
  \/ ConnectWait(Client)
  \/ \E cb \in CbIds \cup {None} : ConnectPost(Client, cb)
  \/ Disconnect(Client)
  \/ DisconnectWait(Client)

Spec == Init /\ [][Next]_vars

\* the handler after a scan that found every peripheral has run to its end:
\* discover() returned Ok, ScanClear, ScanTick(Peripherals), ScanStop
AfterScan ==
  /\ devices = add_devices(EmptyMap, Peripherals)
  /\ connected_val = FALSE
  /\ ever_sent = FALSE
  /\ conn_evt = None
  /\ notify_listeners = <<>>
  /\ connected = None
  /\ characs = {}
  /\ listen_handle = None
  /\ on_disconnect = None
  /\ connection_update_channel = None
  /\ scan_update_channel = None
  /\ scan_task = "some"
  /\ pc = [c \in Callers |-> "idle"]
  /\ rx_stale = [c \in Callers |-> FALSE]
  /\ disp_pc = "next"
  /\ disp_id = None
  /\ orphans = {}
  /\ listen_at = "next"
  /\ pool = {}
  /\ notified = 0
  /\ scan_pc = "off"
  /\ scan_left = 0
  /\ scan_chan = None
  /\ scan_sink = None
  /\ scan_old = NoScanOld
  /\ scan_ticks = 0
  /\ scan_timeout = 0
  /\ scan_falses = 0
  /\ scan_stopped = None
  /\ scan_view = None
  /\ adapter_scanning = FALSE
  /\ hw = [p \in Peripherals |-> FALSE]
  /\ req = [p \in Peripherals |-> FALSE]
  /\ events = <<>>
  /\ target = [c \in Callers |-> None]
  /\ pub = [c \in Callers |-> {}]
  /\ hwreq = [c \in Callers |-> FALSE]
  /\ implicit = [c \in Callers |-> FALSE]
  /\ sink_view = None
  /\ obs = NoObs

\* connect() and disconnect() called by c on a handler whose registry is filled
Connection(c) ==
  \/ ConnectBegin(c)
  \/ \E a \in Addrs : ConnectDevice(c, a)
  \/ ConnectWait(c)
  \/ \E cb \in CbIds \cup {None} : ConnectPost(c, cb)
  \/ Disconnect(c)
  \/ DisconnectWait(c)

\* after a scan: the adapter, the dispatcher and the callers connecting and
\* disconnecting concurrently
ConcNext ==
  \/ Adapter
  \/ Dispatcher
  \/ \E c \in Callers : Connection(c)

ConcSpec == AfterScan /\ [][ConcNext]_vars

\* after a scan: the adapter, the dispatcher, the connection update receiver and
\* one client connecting, disconnecting, setting the connection update channel
\* and subscribing
SinkNext ==
  \/ Adapter
  \/ Dispatcher
  \/ DropConnectionReceiver
  \/ Connection(Client)
  \/ SetConnectionUpdateChannel(Client)
  \/ \E u \in Uuids : Subscribe(Client, u, "returns")

SinkSpec == AfterScan /\ [][SinkNext]_vars

\* after a scan: the adapter emitting events of every kind, the dispatcher and one
\* client connecting and disconnecting
EventNext ==
  \/ Adapter
  \/ \E p \in Peripherals : OtherEvent(p)
  \/ Dispatcher
  \/ HandleOther
  \/ Connection(Client)

EventSpec == AfterScan /\ [][EventNext]_vars

\* after a scan: the adapter, the dispatcher, the notification task and one
\* client connecting, disconnecting, subscribing, unsubscribing, sending and
\* receiving
DataNext ==
  \/ Adapter
  \/ Dispatcher
  \/ Connection(Client)
  \/ \E u \in Uuids : Subscribe(Client, u, "returns")
  \/ \E u \in Uuids : Unsubscribe(Client, u)
  \/ \E u \in Uuids : SendData(Client, u)
  \/ \E u \in Uuids : RecvData(Client, u)
  \/ \E u \in Uuids : ListenNotify(u, TRUE)
  \/ \E p \in Peripherals, u \in Uuids : OrphanNotify(p, u)

DataSpec == AfterScan /\ [][DataNext]_vars

\* after a scan: the adapter, the dispatcher, the notification task and one
\* client connecting, disconnecting and subscribing callbacks of every kind
NotifyNext ==
  \/ Adapter
  \/ Dispatcher
  \/ Connection(Client)
  \/ \E u \in Uuids, k \in Callbacks : Subscribe(Client, u, k)
  \/ \E u \in Uuids : ListenNotify(u, TRUE)

NotifySpec == AfterScan /\ [][NotifyNext]_vars

\* the handler of AfterScan after a connect("a1", None) returned Ok: p1 is tracked,
\* its characteristics are cached and its notification task is spawned
AfterConnect ==
  /\ devices = add_devices(EmptyMap, Peripherals)
  /\ connected_val = TRUE
  /\ ever_sent = TRUE
  /\ conn_evt = "p1"
  /\ notify_listeners = <<>>
  /\ connected = "p1"
  /\ characs = Characteristics("p1")
  /\ listen_handle = "p1"
  /\ on_disconnect = None
  /\ connection_update_channel = None
  /\ scan_update_channel = None
  /\ scan_task = "some"
  /\ pc = [c \in Callers |-> "idle"]
  /\ rx_stale = [c \in Callers |-> FALSE]
  /\ disp_pc = "next"
  /\ disp_id = None
  /\ orphans = {}
  /\ listen_at = "next"
  /\ pool = {}
  /\ notified = 0
  /\ scan_pc = "off"
  /\ scan_left = 0
  /\ scan_chan = None
  /\ scan_sink = None
  /\ scan_old = NoScanOld
  /\ scan_ticks = 0
  /\ scan_timeout = 0
  /\ scan_falses = 0
  /\ scan_stopped = None
  /\ scan_view = None
  /\ adapter_scanning = FALSE
  /\ hw = [p \in Peripherals |-> p = "p1"]
  /\ req = [p \in Peripherals |-> FALSE]
  /\ events = <<>>
  /\ target = [c \in Callers |-> None]
  /\ pub = [c \in Callers |-> {}]
  /\ hwreq = [c \in Callers |-> FALSE]
  /\ implicit = [c \in Callers |-> FALSE]
  /\ sink_view = None
  /\ obs = NoObs

\* a connected handler: the notification task, the blocking pool and one client
\* subscribing callbacks of every kind
OrderNext ==
  \/ \E u \in Uuids, k \in Callbacks : Subscribe(Client, u, k)
  \/ \E u \in Uuids : ListenNotify(u, FALSE)
  \/ \E e \in pool : PoolRun(e)

OrderSpec == AfterConnect /\ [][OrderNext]_vars

\* discover(tx, timeout, filter): the timeouts the client of ScanSpec passes
ScanTimeouts == {250, 400}

\* a freshly constructed handler, the scan tasks and one client issuing discover,
\* stop_scan and set_scanning_update_channel; an aborted scan task may be parked or
\* being polled
ScanNext ==
  \/ ScanTask
  \/ ScanOld
  \/ \E t \in ScanTimeouts, inflight \in BOOLEAN : Discover(Client, t, inflight)
  \/ StopScan(Client)
  \/ \E inflight \in BOOLEAN : StopScanLocked(Client, inflight)
  \/ SetScanningUpdateChannel(Client)

ScanSpec == Init /\ [][ScanNext]_vars

\* the result sinks the client of BatchSpec passes to discover()
Sinks == {None, "open"}

\* a freshly constructed handler, the scan tasks and one client issuing discover
\* with and without a result sink and stop_scan
BatchNext ==
  \/ ScanTask
  \/ ScanOld
  \/ \E tx \in Sinks, t \in ScanTimeouts, inflight \in BOOLEAN : DiscoverTo(Client, tx, t, inflight)
  \/ StopScan(Client)
  \/ \E inflight \in BOOLEAN : StopScanLocked(Client, inflight)

BatchSpec == Init /\ [][BatchNext]_vars

\* a freshly constructed handler, the scan task and the callers issuing discover
\* and stop_scan concurrently; a scan task is parked at an .await whenever it is
\* aborted
ConcScanNext ==
  \/ ScanTask
  \/ \E c \in Callers, t \in Timeouts : Discover(c, t, FALSE)
  \/ \E c \in Callers : StopScan(c)
  \/ \E c \in Callers : StopScanLocked(c, FALSE)

ConcScanSpec == Init /\ [][ConcScanNext]_vars

\* a freshly constructed handler, the scan tasks and one client that scans and
\* resolves addresses through connect(), up to the point where connect() waits
\* for the connection; an aborted scan task may be parked or being polled
RegistryNext ==
  \/ ScanTask
  \/ ScanOld
  \/ \E t \in Timeouts, inflight \in BOOLEAN : Discover(Client, t, inflight)
  \/ ConnectBegin(Client)
  \/ \E inflight \in BOOLEAN : ConnectDiscover(Client, inflight)
  \/ \E a \in Addrs : ConnectDevice(Client, a)

RegistrySpec == Init /\ [][RegistryNext]_vars

\* after a scan: the adapter, the dispatcher and one client connecting and
\* disconnecting; the runtime runs every task that stays ready
FairNext ==
  \/ Adapter
  \/ Dispatcher
  \/ Connection(Client)

Fairness ==
  /\ WF_vars(HandleConnectCheck)
  /\ WF_vars(HandleConnectSend)
  /\ WF_vars(HandleDisconnect)
  /\ WF_vars(ConnectWait(Client))
  /\ WF_vars(\E cb \in CbIds \cup {None} : ConnectPost(Client, cb))
  /\ WF_vars(DisconnectWait(Client))

FairSpec == AfterScan /\ [][FairNext]_vars /\ Fairness

\* after a scan: the adapter, the dispatcher and one client connecting,
\* disconnecting and discovering services; the runtime runs every task that stays
\* ready, and a call of connect_device goes on as soon as it gets its locks
FairServicesNext ==
  \/ Adapter
  \/ Dispatcher
  \/ Connection(Client)
  \/ \E a \in Addrs : DiscoverServices(Client, a)

ServicesFairness ==
  WF_vars(\E a \in Addrs : pc[Client] = "s_dev" /\ ConnectDevice(Client, a))

FairServicesSpec == AfterScan /\ [][FairServicesNext]_vars /\ Fairness /\ ServicesFairness

\* the handler of AfterScan right after a further discover(250) returned Ok
ScanStarted ==
  /\ devices = add_devices(EmptyMap, Peripherals)
  /\ connected_val = FALSE
  /\ ever_sent = FALSE
  /\ conn_evt = None
  /\ notify_listeners = <<>>
  /\ connected = None
  /\ characs = {}
  /\ listen_handle = None
  /\ on_disconnect = None
  /\ connection_update_channel = None
  /\ scan_update_channel = None
  /\ scan_task = "some"
  /\ pc = [c \in Callers |-> "idle"]
  /\ rx_stale = [c \in Callers |-> FALSE]
  /\ disp_pc = "next"
  /\ disp_id = None
  /\ orphans = {}
  /\ listen_at = "next"
  /\ pool = {}
  /\ notified = 0
  /\ scan_pc = "clear"
  /\ scan_left = 250 \div TickMs
  /\ scan_chan = None
  /\ scan_sink = None
  /\ scan_old = NoScanOld
  /\ scan_ticks = 0
  /\ scan_timeout = 250
  /\ scan_falses = 0
  /\ scan_stopped = None
  /\ scan_view = None
  /\ adapter_scanning = TRUE
  /\ hw = [p \in Peripherals |-> FALSE]
  /\ req = [p \in Peripherals |-> FALSE]
  /\ events = <<>>
  /\ target = [c \in Callers |-> None]
  /\ pub = [c \in Callers |-> {}]
  /\ hwreq = [c \in Callers |-> FALSE]
  /\ implicit = [c \in Callers |-> FALSE]
  /\ sink_view = None
  /\ obs = NoObs

\* a running scan that no stop_scan() and no discover() cancels, the adapter, the
\* dispatcher and one client connecting and disconnecting; the runtime runs every
\* task that stays ready
FairScanNext ==
  \/ Adapter
  \/ Dispatcher
  \/ ScanTask
  \/ Connection(Client)

ScanFairness ==
  /\ WF_vars(ScanClear)
  /\ WF_vars(\E S \in SUBSET Peripherals : ScanTick(S))
  /\ WF_vars(ScanStop)

FairScanSpec == ScanStarted /\ [][FairScanNext]_vars /\ Fairness /\ ScanFairness

(***************************** claims ***************************************)
ReturnedOk(op) == obs.op = op /\ obs.r = "Ok"

\* C1: connect(address) returns Ok only if, after the call began, the dispatcher
\* published connected = true on a DeviceConnected event of the peripheral the
\* call connected to
C1_OkOnlyAfterOwnEvent == ReturnedOk("connect") => obs.confirmed

\* C2: once connect() has issued the hardware connect request and the adapter has
\* emitted DeviceConnected for that peripheral, the waiting call eventually returns
C2_Waiting ==
  /\ pc[Client] = "c_wait" /\ hwreq[Client]
  /\ \E i \in 1..Len(events) : events[i] = <<"DeviceConnected", target[Client]>>

C2_ConnectEventuallyReturns == C2_Waiting ~> (pc[Client] # "c_wait")

\* C3: the connection state becomes true only in the dispatcher's handling of a
\* DeviceConnected event of the tracked peripheral, false only in its handling of
\* a DeviceDisconnected event of the tracked peripheral, and while it is true the
\* event that published it was of the tracked peripheral
C3_TrueFromTrackedEvent ==
  connected_val => (connected # None /\ conn_evt = connected)

C3_WriterIsDispatcher ==
  /\ (~connected_val /\ connected_val') => (disp_pc = "send" /\ IsTracked(disp_id))
  /\ (connected_val /\ ~connected_val') =>
       (disp_pc = "next" /\ events # <<>> /\ Head(events)[1] = "DeviceDisconnected"
          /\ IsTracked(Head(events)[2]))

C3_SingleWriter == [][C3_WriterIsDispatcher]_vars /\ []C3_TrueFromTrackedEvent

\* C4: after the dispatcher handled a DeviceDisconnected event of the tracked
\* peripheral the session is cleared: cache, listeners, dispatch task handle and
\* tracked peripheral are empty, the connection state is false, and a registered
\* on_disconnect callback was invoked
C4_DisconnectEventClearsSession ==
  obs.op = "handle_disconnect" =>
    /\ characs = {}
    /\ notify_listeners = <<>>
    /\ listen_handle = None
    /\ connected = None
    /\ ~connected_val
    /\ (on_disconnect # None => obs.cb)

\* C5: disconnect() that issued the hardware disconnect returns only after the
\* connection state was published since the request: Ok with the state false,
\* DisconnectFailed with the state true
C5_DisconnectWaitsForPublish ==
  (obs.op = "disconnect" /\ obs.r \in {"Ok", "DisconnectFailed"}) =>
    /\ obs.confirmed
    /\ (obs.r = "Ok") = ~connected_val

\* C6: when disconnect() returns Ok, is_connected() is false and the
\* characteristic cache is empty
C6_DisconnectOkMeansCleared ==
  ReturnedOk("disconnect") => (~connected_val /\ characs = {})

\* C7: at most one peripheral is connected through the session
C7_AtMostOneConnected == Cardinality({p \in Peripherals : hw[p]}) <= 1

\* C8: the characteristic cache is non-empty only while a peripheral is tracked
\* and the connection state is true
C8_CacheOnlyWhileConnected ==
  characs # {} => (connected # None /\ connected_val)

\* the tracked peripheral's address is a
TrackedAddress(a) == connected # None /\ a = fmt_addr(connected)

\* C9 as stated: connect_device with an address that is not a key of the registry
\* returns UnknownPeripheral and issues no hardware connect request
C9_StepUnknown(a) ==
  (ConnectDevice(Client, a) /\ a \notin DOMAIN devices) =>
    (obs'.op = "connect" /\ obs'.r = "UnknownPeripheral" /\ req' = req)

C9_StepAmended(a) ==
  ConnectDevice(Client, a) =>
    /\ (obs'.op = "connect" /\ obs'.r = "UnknownPeripheral")
         <=> (a \notin DOMAIN devices /\ ~TrackedAddress(a))
    /\ (a \notin DOMAIN devices /\ TrackedAddress(a)) => obs'.r = "AlreadyConnected"
    /\ a \notin DOMAIN devices => (req' = req /\ connected' = connected)

ActiveTo(a) == TrackedAddress(a) /\ connected_val

\* C10 as stated: a connect(A) made while the connection to A is active returns
\* AlreadyConnected and issues no hardware connect request, be it from the
\* implicit discover of an empty registry or from connect_device
C10_StepFromDiscover ==
  (ConnectDiscover(Client, FALSE) /\ (\E a \in Addrs : ActiveTo(a)) /\ obs'.op = "connect") =>
    obs'.r = "AlreadyConnected"

C10_StepFromDevice(a) ==
  (ConnectDevice(Client, a) /\ ActiveTo(a)) =>
    (obs'.op = "connect" /\ obs'.r = "AlreadyConnected" /\ req' = req)

C11_FailedConnectLeavesDisconnected ==
  [][/\ \A a \in Addrs :
          (ConnectDevice(Client, a) /\ Registered(a) /\ ~AlreadyConnectedTo(a)
             /\ obs'.op = "connect" /\ obs'.r = "Transport") => connected' = None
     /\ (ConnectWait(Client) /\ obs'.op = "connect" /\ obs'.r = "ConnectionFailed")
          => connected' = None
     /\ ((\E cb \in CbIds \cup {None} : ConnectPost(Client, cb))
           /\ obs'.op = "connect" /\ obs'.r = "Transport") => connected' = None]_vars

\* C12: a connect() that found the registry empty looks its address up only after
\* the discovery pass it started has made its rounds, so the pass's results are in
\* the registry at the lookup
C12_ImplicitScanBeforeLookup ==
  [][\A a \in Addrs :
       (ConnectDevice(Client, a) /\ implicit[Client]) => scan_pc \in {"stop", "off"}]_vars

\* C13: once stop_scan() was called while a scan loop was running, no round of
\* that loop is made any more, and a stop_scan() that sent false on the scanning
\* update channel leaves exactly one false sent for that scan
C13_NoRoundAfterStop ==
  scan_stopped # None =>
    ~\E S \in SUBSET Peripherals : ScanTick(S) \/ ScanOldTick(S)

C13_OneFalse ==
  /\ scan_stopped # None => scan_falses <= 1
  /\ scan_stopped = "Sent" => scan_falses = 1

C13_StopScanStopsLoop == [][C13_NoRoundAfterStop]_vars /\ []C13_OneFalse

\* C14: a discover() made while a scan is running cancels the running loop before
\* it starts the new one: at most one scan loop task is alive at any time, and a
\* superseded loop makes no round once the new scan was started
C14_AtMostOneLoop == ~(scan_pc # "off" /\ scan_old.pc # "off")

C14_NoSupersededRound ==
  scan_pc # "off" => ~\E S \in SUBSET Peripherals : ScanOldTick(S)

C14_DiscoverSupersedes == [][C14_NoSupersededRound]_vars /\ []C14_AtMostOneLoop

\* the least number of d's that cover t
Ceil(t, d) == (t + d - 1) \div d

\* C15: a scan loop that ran to its end without being cancelled made exactly
\* ceil(timeout / 200) rounds
C15_CeilRounds ==
  obs.op = "scan_done" => obs.ticks = Ceil(obs.timeout, TickMs)

\* C16: a scan loop that is not cancelled comes to its end, whatever the client
\* does with the connection meanwhile
C16_ScanLoopEnds == (scan_pc # "off") ~> (scan_pc = "off")

\* how often listener entry i occurs in calls
Count(i, calls) == Cardinality({k \in 1..Len(calls) : calls[k] = i})

\* C17: for a notification read from the peripheral's stream, the callback of
\* every listener entry with the notification's uuid is invoked exactly once and
\* no callback of an entry with another uuid is invoked
C17_FanOutOncePerListener ==
  obs.op = "notify" =>
    /\ \A k \in 1..Len(obs.calls) : obs.calls[k] \in 1..Len(notify_listeners)
    /\ \A i \in 1..Len(notify_listeners) :
         Count(i, obs.calls) = IF notify_listeners[i].uuid = obs.uuid THEN 1 ELSE 0

C17_Witness ==
  /\ obs.op = "notify"
  /\ Len(notify_listeners) = 2
  /\ notify_listeners[1].uuid = obs.uuid /\ notify_listeners[2].uuid = obs.uuid

\* a device is connected: a peripheral is tracked and the connection state is true
DeviceIsConnected == connected # None /\ connected_val

\* C18: send_data and recv_data return NoDeviceConnected when no device is
\* connected, and CharacNotAvailable when a device is connected and the uuid is not
\* in the characteristic cache; in both cases the peripheral's write or read is
\* not called
C18_DataGuards ==
  obs.op \in {"send_data", "recv_data"} =>
    /\ ~DeviceIsConnected => (obs.r = "NoDeviceConnected" /\ ~obs.io)
    /\ (DeviceIsConnected /\ obs.uuid \notin characs) =>
         (obs.r = "CharacNotAvailable" /\ ~obs.io)

\* C19: disconnect() called while no peripheral is tracked, or while the tracked
\* peripheral is not connected, returns NoDeviceConnected at once: it issues no
\* hardware disconnect request and does not wait
C19_NothingToDisconnect ==
  [][(Disconnect(Client) /\ (connected = None \/ ~hw[connected])) =>
       /\ obs'.op = "disconnect" /\ obs'.r = "NoDeviceConnected"
       /\ pc'[Client] = "idle"]_vars

C19_Witness ==
  /\ obs.op = "disconnect" /\ obs.r = "NoDeviceConnected"
  /\ connected # None /\ ~hw[connected]

\* C20: the sink of the connection update channel receives the connection state
\* when it is set and every change of it afterwards, in order: whenever the
\* client has no call in progress and the dispatcher is between two events, the
\* last value the sink received is the connection state
C20_SinkFollowsState ==
  (connection_update_channel = "open" /\ pc[Client] = "idle" /\ disp_pc = "next") =>
    sink_view = BoolStr(connected_val)

\* C21: every device a scan round delivers is in the registry under the address
\* reported for it, every key of the registry is the address of the handle it
\* maps to, an entry stays as it is until a scan task clears the registry, and
\* connect_device tracks for a registered address the handle with that address
C21_KeyIsAddress == \A a \in DOMAIN devices : DeviceAddress(devices[a]) = a

C21_RoundDelivered ==
  \A S \in SUBSET Peripherals :
    ScanTick(S) => \A p \in S :
      /\ DeviceAddress(p) \in DOMAIN devices'
      /\ DeviceAddress(devices'[DeviceAddress(p)]) = DeviceAddress(p)

C21_EntryKept ==
  ~(ScanClear \/ ScanOldClear) => \A a \in DOMAIN devices :
    a \in DOMAIN devices' /\ DeviceAddress(devices'[a]) = a

C21_Resolved ==
  \A a \in Addrs :
    (ConnectDevice(Client, a) /\ Registered(a) /\ ~AlreadyConnectedTo(a)) =>
      /\ connected' # None /\ DeviceAddress(connected') = a
      /\ ~(obs'.op = "connect" /\ obs'.r = "UnknownPeripheral")

C22_LoopFailed == ScanTickFail \/ (ScanStop /\ obs'.op # "scan_done")

\* C22: when the scan loop ends on a failure, the last value on the scanning
\* update channel is false
C22_FailedLoopFlipsToFalse ==
  [][(C22_LoopFailed /\ scan_chan # None) =>
       (scan_pc' = "off" /\ scan_view' = "false")]_vars

\* C23: discover_services(address) called for a registered peripheral that is not
\* connected comes to its end
C23_InDiscoverServices == pc[Client] = "s_dev"

\* C23: a discover_services() call that reached connect_device returns
C23_DiscoverServicesReturns == C23_InDiscoverServices ~> (pc[Client] = "idle")

\* C24: the handling of a disconnect event of the tracked peripheral that
\* publishes the connection state false has invoked the registered on_disconnect
\* callback, cleared the listeners and emptied the characteristic cache; and a
\* disconnect() that waited returns Ok only after such a handling, so that a
\* registered callback has run since the call's request
C24_ClearedAtPublish ==
  (HandleDisconnect /\ connected_val' # connected_val) =>
    /\ obs'.op = "handle_disconnect"
    /\ on_disconnect # None => obs'.cb
    /\ notify_listeners' = <<>>
    /\ characs' = {}

C24_CallbackBeforeOk ==
  (ReturnedOk("disconnect") /\ on_disconnect # None) => obs.confirmed

\* C24: the on_disconnect callback has been invoked and cleared before false is
\* published and before disconnect() returns Ok
C24_CallbackBeforePublish == [][C24_ClearedAtPublish]_vars /\ []C24_CallbackBeforeOk

\* the event at the head of the stream is not a DeviceConnected or
\* DeviceDisconnected of the tracked peripheral
C25_Foreign ==
  \/ Head(events)[1] \notin {"DeviceConnected", "DeviceDisconnected"}
  \/ connected = None
  \/ connected # Head(events)[2]

\* C25: the handling of a DeviceConnected or DeviceDisconnected event of a
\* peripheral that is not the tracked one (or with none tracked), and of an event
\* of another kind, changes nothing of the session: tracked peripheral, cache,
\* listeners, dispatch task, connection state and callback registration keep their
\* values, no callback is invoked and nothing is sent on the connection update
\* channel
C25_ForeignEventIgnored ==
  [][((HandleConnectCheck \/ HandleDisconnect \/ HandleOther) /\ C25_Foreign) =>
       /\ UNCHANGED <<connected, characs, notify_listeners, listen_handle, on_disconnect>>
       /\ UNCHANGED <<connected_val, ever_sent, conn_evt, sink_view, disp_pc>>
       /\ obs' = [NoObs EXCEPT !.op = "ignored"]]_vars

\* the dispatcher ignored an event while a connected peripheral was tracked
C25_Witness ==
  /\ obs.op = "ignored"
  /\ connected # None /\ hw[connected] /\ connected_val

\* the notification dispatch tasks alive: the one of state.listen_handle and the
\* detached ones
C26_Alive == Cardinality(orphans) + (IF listen_handle # None THEN 1 ELSE 0)

\* C26: at most one notification dispatch task is alive, and no notification is
\* dispatched by a task that an earlier connect() started and whose handle a later
\* successful connect() replaced
C26_AtMostOneDispatchTask ==
  /\ C26_Alive <= 1
  /\ obs.op = "notify" => ~obs.orphan

\* C27: when connect() returns Ok the registered on_disconnect callback is the one
\* that call was given (none when it was given none), so the callback a later
\* disconnect event invokes is the one of the connect() that made the connection
C27_RegistrationIsOwn ==
  ReturnedOk("connect") => on_disconnect = obs.arg

\* C28: the dispatcher never stops: after every event it handled, whatever the
\* outcome, it takes the next event from the adapter's stream
C28_DispatcherLives == disp_pc # "dead"

\* the listener entries with uuid u, in order
C29_Matching(u) ==
  SelectSeq([i \in 1..Len(notify_listeners) |-> i], LAMBDA i : notify_listeners[i].uuid = u)

\* C29: whatever the callbacks of the listeners do (return, block for ever,
\* panic), a round of the notification dispatch task hands the callback of every
\* matching listener over and leaves the task at the stream, ready for the next
\* notification
C29_Round ==
  \A u \in Uuids :
    ListenNotify(u, TRUE) => (listen_at' = "next" /\ obs'.calls = C29_Matching(u))

C30_Kept(u) == {i \in 1..Len(notify_listeners) : notify_listeners[i].uuid # u}

\* C30: an unsubscribe(u) that returns Ok leaves no listener entry with uuid u and
\* leaves the entries of the other uuids as they were, in their order; one that
\* fails leaves the list as it was
C30_Step ==
  \A u \in Uuids :
    (Unsubscribe(Client, u) /\ obs'.op = "unsubscribe") =>
      IF obs'.r = "Ok"
        THEN /\ Len(notify_listeners') = Cardinality(C30_Kept(u))
             /\ \A i \in C30_Kept(u) :
                  notify_listeners'[Cardinality({j \in C30_Kept(u) : j <= i})] = notify_listeners[i]
        ELSE notify_listeners' = notify_listeners

C31_Step ==
  \A u \in Uuids, k \in Callbacks :
    (Subscribe(Client, u, k) /\ obs'.op = "subscribe" /\ obs'.uuid = u) =>
      IF obs'.r = "Ok"
        THEN /\ DeviceIsConnected /\ u \in characs /\ obs'.io
             /\ notify_listeners' = Append(notify_listeners, [uuid |-> u, callback |-> k])
        ELSE /\ notify_listeners' = notify_listeners
             /\ obs'.r \in {"NoDeviceConnected", "CharacNotAvailable", "Transport"}

\* C31: every subscribe step appends only under the three guards and leaves the
\* listener list unchanged when it fails
C31_SubscribeGuards == [][C31_Step]_vars

\* a subscribe passed the guards, dev.subscribe failed, and the list holds the
\* entry of an earlier subscribe
C31_Witness ==
  /\ obs.op = "subscribe" /\ obs.r = "Transport"
  /\ Len(notify_listeners) = 1


\* the session state: the tracked peripheral, the characteristic cache, the
\* listener list, the on_disconnect registration and the dispatch-task handle
C32_Session == <<connected, characs, notify_listeners, on_disconnect, listen_handle>>

\* a disconnect() call of the client is at a step of its own or waits for the event
C32_InDisconnect == Disconnect(Client) \/ DisconnectWait(Client) \/ pc[Client] = "d_wait"

\* C32: no step of disconnect() changes the session state, whatever it returns,
\* and while the call is in progress the session state is changed by the
\* disconnect-event handler only
C32_DisconnectLeavesSession ==
  [][/\ (Disconnect(Client) \/ DisconnectWait(Client)) => UNCHANGED C32_Session
     /\ (C32_InDisconnect /\ C32_Session' # C32_Session) => HandleDisconnect]_vars

\* disconnect() waited, returned Ok, and the peripheral is still tracked
C32_Witness ==
  /\ obs.op = "disconnect" /\ obs.r = "Ok"
  /\ connected # None


\* the batch is in ascending order of address
C33_Ascending(batch) ==
  \A i, j \in 1..Len(batch) : i < j => AddrRank(batch[i]) <= AddrRank(batch[j])

\* a round of the running scan task pushes at most one batch, that of the round
C33_TickOrder ==
  (obs'.op = "batch" /\ ~obs'.orphan) =>
    (scan_ticks' = scan_ticks + 1 /\ obs'.ticks = scan_ticks')

\* C33: every batch pushed to the result sink is non-empty and in ascending order
\* of address, and the batches of a scan are pushed one per round at most, in the
\* order of the rounds
C33_BatchesSortedInTickOrder ==
  /\ [](obs.op = "batch" => (obs.batch # <<>> /\ C33_Ascending(obs.batch)))
  /\ [][C33_TickOrder]_vars

\* the second round of a scan pushed a batch of two devices
C33_Witness ==
  /\ obs.op = "batch" /\ obs.ticks = 2
  /\ Len(obs.batch) = 2

\* C34: a discover() whose start_scan the adapter rejected returns that error in
\* the same step, spawns no scan task and sends nothing on the scanning update
\* channel
C34_Step ==
  (obs'.op = "discover" /\ obs'.r = "StartErr") =>
    /\ pc'[Client] = "idle"
    /\ scan_task' = None /\ scan_pc' = "off"
    /\ scan_view' = scan_view /\ scan_falses' = 0

\* C34: every rejected start of a scan returns synchronously without a task and
\* without a scanning-active transition
C34_RejectedStartSpawnsNothing == [][C34_Step]_vars

\* a discover() with the scanning update channel set returned the error of start_scan
C34_Witness ==
  /\ obs.op = "discover" /\ obs.r = "StartErr"
  /\ scan_update_channel # None

\* a scan task is alive that reaches the adapter.stop_scan() of line 368
C35_TaskAlive == scan_pc # "off" \/ scan_old.pc # "off"

\* while no call is in progress the adapter is scanning only with a scan task alive
C35_NotLeftScanning ==
  ((\A c \in Callers : pc[c] = "idle") /\ adapter_scanning) => C35_TaskAlive

\* C35: when stop_scan() has returned Ok the adapter is not scanning, whatever
\* discover() calls were made while it ran: no interleaving leaves the adapter
\* scanning behind a stop_scan() that returned Ok
C35_StopScanStopsAdapter == ReturnedOk("stop_scan") => ~adapter_scanning

\* C36: a connect(address) whose lookup runs after discover() returned Ok and
\* before the new scan task filled the registry resolves no address
C36_Step ==
  \A a \in Addrs :
    (ConnectDevice(Client, a) /\ scan_pc = "clear" /\ ~AlreadyConnectedTo(a)) =>
      (obs'.op = "connect" /\ obs'.r = "UnknownPeripheral")

\* C36: after discover() returned Ok no address of an earlier scan resolves
C36_NoHandleFromEarlierScan == [][C36_Step]_vars

\* C37: the assertion of connect_device holds whenever it is evaluated: no call of
\* connect_device ends in its panic
C37_ConnectAssertionHolds ==
  [][\A a \in Addrs : ConnectDevice(Client, a) => ~(obs'.op = "connect" /\ obs'.r = "Panic")]_vars

\* C38: the assertion of disconnect() holds whenever it is evaluated: a
\* disconnect() with a tracked peripheral that reports connected does not panic
C38_DisconnectAssertionHolds ==
  [][(Disconnect(Client) /\ connected # None /\ hw[connected]) =>
       ~(obs'.op = "disconnect" /\ obs'.r = "Panic")]_vars

\* C39: while no discover() or stop_scan() is in progress and no scan task is
\* alive, the last value sent on the scanning update channel is not true
C39_ViewFalseWhenIdle ==
  (pc[Client] = "idle" /\ scan_pc = "off" /\ scan_old.pc = "off") => scan_view # "true"


\* the handler is as a connect("a1", None) that returned Ok leaves it
C40_Connected ==
  /\ ReturnedOk("connect")
  /\ connected = "p1" /\ listen_handle = "p1" /\ hw["p1"] /\ connected_val
  /\ characs = Characteristics("p1") /\ notify_listeners = <<>> /\ orphans = {}

\* the call e is started while a call of an earlier notification of the same
\* characteristic to the same listener has not started
C40_Overtakes(e) ==
  \E f \in pool : f.l = e.l /\ f.uuid = e.uuid /\ f.n < e.n

\* C40: the calls of a listener's callback start in the order of the
\* notifications: no call is started before the call of an earlier notification of
\* the same characteristic to the same listener
C40_CallbacksInStreamOrder ==
  [][\A e \in pool : PoolRun(e) => ~C40_Overtakes(e)]_vars

====
